---- MODULE Spec2Model ----
(***************************************************************************)
(* Model of the Menu Table Interpreter of src/mensa_email.py: the legend   *)
(* resolver (_extract_allergen_mapping, _resolve_filter_allergens), the    *)
(* cell merger (_merge_table_cells), the dish extractor                    *)
(* (_parse_dish_from_cell) and the menu builder (get_all_dishes).          *)
(*                                                                         *)
(* A Python str is the sequence of its code points, so that every          *)
(* character of the program's patterns can be written; Str("...") is the   *)
(* str of an ASCII literal.  An optional cell (None or a str) is <<>> or   *)
(* <<text>>.  A price is an integer number of cents.  The weekday names    *)
(* and the two categories, which the program never inspects character by   *)
(* character, are kept as strings.                                         *)
(***************************************************************************)
EXTENDS Integers, Sequences, FiniteSets, TLC

VARIABLES
    last_page_text,          \* text of the last PDF page (the legend)
    filter_words_raw,        \* Config.filter_words_raw
    filter_allergens_raw,    \* Config.filter_allergens_raw
    n_pages,                 \* len(pdf.pages)
    legend_idx,              \* matches of ALLERGEN_MAP_RE consumed so far
    allergen_map,            \* MensaParser.allergen_map
    filter_allergen_numbers, \* MensaParser.filter_allergen_numbers
    table,                   \* rows of the menu table consumed so far
    merged_cells,            \* _merge_table_cells' accumulator
    dishes_by_day,           \* get_all_dishes' result
    dish_source,             \* per day, the merged-cell index each Dish came from
    pc                       \* position of the run

vars == <<last_page_text, filter_words_raw, filter_allergens_raw, n_pages,
          legend_idx, allergen_map, filter_allergen_numbers, table,
          merged_cells, dishes_by_day, dish_source, pc>>

-----------------------------------------------------------------------------
(* Code points and the str literals of the program                         *)

\* the printable ASCII characters U+0020 .. U+005F and U+0061 .. U+007E, in
\* code point order
AsciiLow == " !\"#$%&'()*+,-./0123456789:;<=>?@ABCDEFGHIJKLMNOPQRSTUVWXYZ[\\]^_"
AsciiHigh == "abcdefghijklmnopqrstuvwxyz{|}~"

\* position of the one-character string c in the string chars, 0 if absent
IndexIn(chars, c) ==
    IF \E i \in 1..Len(chars) : SubSeq(chars, i, i) = c
    THEN CHOOSE i \in 1..Len(chars) : SubSeq(chars, i, i) = c
    ELSE 0

\* ord(c) of a character a literal of this module is written with
Ord(c) ==
    IF c = "\t" THEN 9
    ELSE IF c = "\n" THEN 10
    ELSE IF c = "\f" THEN 12
    ELSE IF c = "\r" THEN 13
    ELSE IF IndexIn(AsciiLow, c) > 0 THEN 31 + IndexIn(AsciiLow, c)
    ELSE 96 + (CHOOSE i \in 1..Len(AsciiHigh) : SubSeq(AsciiHigh, i, i) = c)

\* the str of a literal
RECURSIVE Str(_)
Str(lit) ==
    IF lit = "" THEN <<>> ELSE <<Ord(SubSeq(lit, 1, 1))>> \o Str(SubSeq(lit, 2, Len(lit)))

\* the code points the patterns and the parser name
COMMA == Ord(",")
PIPE == Ord("|")
LPAREN == Ord("(")
RPAREN == Ord(")")
HYPHEN == Ord("-")
COLON == Ord(":")
NEWLINE == Ord("\n")
DOT == Ord(".")
ZERO == Ord("0")
SPACE == Ord(" ")

\* s[i] (1-based), -1 outside the str
Char(s, i) == IF i >= 1 /\ i <= Len(s) THEN s[i] ELSE -1

-----------------------------------------------------------------------------
(* The character classes of re and str (Unicode 14.0.0)                       *)

\* the digit zero of every script: \d matches 0..9 of each of them (the
\* characters str.isdecimal() is true of), and float() takes them
DigitZeros ==
    { 48, 1632, 1776, 1984, 2406, 2534, 2662, 2790, 2918, 3046, 3174, 3302,
      3430, 3558, 3664, 3792, 3872, 4160, 4240, 6112, 6160, 6470, 6608, 6784,
      6800, 6992, 7088, 7232, 7248, 42528, 43216, 43264, 43472, 43504, 43600,
      44016, 65296, 66720, 68912, 69734, 69872, 69942, 70096, 70384, 70736,
      70864, 71248, 71360, 71472, 71904, 72016, 72784, 73040, 73120, 92768,
      92864, 93008, 120782, 120792, 120802, 120812, 120822, 123200, 123632,
      125264, 130032 }

\* \d
Digits == UNION {z..(z + 9) : z \in DigitZeros}

\* [0-9]
AsciiDigits == 48..57

\* [a-z]
LowerAscii == 97..122

\* [A-Z]
UpperAscii == 65..90

\* \s, and what str.strip() removes and str.split() splits at (str.isspace())
Whitespace ==
    { 9, 10, 11, 12, 13, 28, 29, 30, 31, 32, 133, 160, 5760, 8192, 8193,
      8194, 8195, 8196, 8197, 8198, 8199, 8200, 8201, 8202, 8232, 8233, 8239,
      8287, 12288 }

\* the line boundaries of str.splitlines()
LineBreaks ==
    { 10, 11, 12, 13, 28, 29, 30, 133, 8232, 8233 }

IsDigit(c) == c \in AsciiDigits \/ (c > 127 /\ c \in Digits)
IsSpace(c) == c \in Whitespace

\* str.lower() of one character, but U+0130 and U+03A3: <<first, last, step,
\* delta>> says that first, first + step, .., last become themselves + delta
LowerRanges ==
    { <<65, 90, 1, 32>>, <<192, 214, 1, 32>>, <<216, 222, 1, 32>>,
      <<256, 302, 2, 1>>, <<306, 310, 2, 1>>, <<313, 327, 2, 1>>,
      <<330, 374, 2, 1>>, <<376, 376, 1, -121>>, <<377, 381, 2, 1>>,
      <<385, 385, 1, 210>>, <<386, 388, 2, 1>>, <<390, 390, 1, 206>>,
      <<391, 391, 1, 1>>, <<393, 394, 1, 205>>, <<395, 395, 1, 1>>,
      <<398, 398, 1, 79>>, <<399, 399, 1, 202>>, <<400, 400, 1, 203>>,
      <<401, 401, 1, 1>>, <<403, 403, 1, 205>>, <<404, 404, 1, 207>>,
      <<406, 406, 1, 211>>, <<407, 407, 1, 209>>, <<408, 408, 1, 1>>,
      <<412, 412, 1, 211>>, <<413, 413, 1, 213>>, <<415, 415, 1, 214>>,
      <<416, 420, 2, 1>>, <<422, 422, 1, 218>>, <<423, 423, 1, 1>>,
      <<425, 425, 1, 218>>, <<428, 428, 1, 1>>, <<430, 430, 1, 218>>,
      <<431, 431, 1, 1>>, <<433, 434, 1, 217>>, <<435, 437, 2, 1>>,
      <<439, 439, 1, 219>>, <<440, 440, 1, 1>>, <<444, 444, 1, 1>>,
      <<452, 452, 1, 2>>, <<453, 453, 1, 1>>, <<455, 455, 1, 2>>,
      <<456, 456, 1, 1>>, <<458, 458, 1, 2>>, <<459, 475, 2, 1>>,
      <<478, 494, 2, 1>>, <<497, 497, 1, 2>>, <<498, 500, 2, 1>>,
      <<502, 502, 1, -97>>, <<503, 503, 1, -56>>, <<504, 542, 2, 1>>,
      <<544, 544, 1, -130>>, <<546, 562, 2, 1>>, <<570, 570, 1, 10795>>,
      <<571, 571, 1, 1>>, <<573, 573, 1, -163>>, <<574, 574, 1, 10792>>,
      <<577, 577, 1, 1>>, <<579, 579, 1, -195>>, <<580, 580, 1, 69>>,
      <<581, 581, 1, 71>>, <<582, 590, 2, 1>>, <<880, 882, 2, 1>>,
      <<886, 886, 1, 1>>, <<895, 895, 1, 116>>, <<902, 902, 1, 38>>,
      <<904, 906, 1, 37>>, <<908, 908, 1, 64>>, <<910, 911, 1, 63>>,
      <<913, 929, 1, 32>>, <<932, 939, 1, 32>>, <<975, 975, 1, 8>>,
      <<984, 1006, 2, 1>>, <<1012, 1012, 1, -60>>, <<1015, 1015, 1, 1>>,
      <<1017, 1017, 1, -7>>, <<1018, 1018, 1, 1>>, <<1021, 1023, 1, -130>>,
      <<1024, 1039, 1, 80>>, <<1040, 1071, 1, 32>>, <<1120, 1152, 2, 1>>,
      <<1162, 1214, 2, 1>>, <<1216, 1216, 1, 15>>, <<1217, 1229, 2, 1>>,
      <<1232, 1326, 2, 1>>, <<1329, 1366, 1, 48>>, <<4256, 4293, 1, 7264>>,
      <<4295, 4295, 1, 7264>>, <<4301, 4301, 1, 7264>>,
      <<5024, 5103, 1, 38864>>, <<5104, 5109, 1, 8>>,
      <<7312, 7354, 1, -3008>>, <<7357, 7359, 1, -3008>>,
      <<7680, 7828, 2, 1>>, <<7838, 7838, 1, -7615>>, <<7840, 7934, 2, 1>>,
      <<7944, 7951, 1, -8>>, <<7960, 7965, 1, -8>>, <<7976, 7983, 1, -8>>,
      <<7992, 7999, 1, -8>>, <<8008, 8013, 1, -8>>, <<8025, 8031, 2, -8>>,
      <<8040, 8047, 1, -8>>, <<8072, 8079, 1, -8>>, <<8088, 8095, 1, -8>>,
      <<8104, 8111, 1, -8>>, <<8120, 8121, 1, -8>>, <<8122, 8123, 1, -74>>,
      <<8124, 8124, 1, -9>>, <<8136, 8139, 1, -86>>, <<8140, 8140, 1, -9>>,
      <<8152, 8153, 1, -8>>, <<8154, 8155, 1, -100>>, <<8168, 8169, 1, -8>>,
      <<8170, 8171, 1, -112>>, <<8172, 8172, 1, -7>>,
      <<8184, 8185, 1, -128>>, <<8186, 8187, 1, -126>>,
      <<8188, 8188, 1, -9>>, <<8486, 8486, 1, -7517>>,
      <<8490, 8490, 1, -8383>>, <<8491, 8491, 1, -8262>>,
      <<8498, 8498, 1, 28>>, <<8544, 8559, 1, 16>>, <<8579, 8579, 1, 1>>,
      <<9398, 9423, 1, 26>>, <<11264, 11311, 1, 48>>, <<11360, 11360, 1, 1>>,
      <<11362, 11362, 1, -10743>>, <<11363, 11363, 1, -3814>>,
      <<11364, 11364, 1, -10727>>, <<11367, 11371, 2, 1>>,
      <<11373, 11373, 1, -10780>>, <<11374, 11374, 1, -10749>>,
      <<11375, 11375, 1, -10783>>, <<11376, 11376, 1, -10782>>,
      <<11378, 11378, 1, 1>>, <<11381, 11381, 1, 1>>,
      <<11390, 11391, 1, -10815>>, <<11392, 11490, 2, 1>>,
      <<11499, 11501, 2, 1>>, <<11506, 11506, 1, 1>>, <<42560, 42604, 2, 1>>,
      <<42624, 42650, 2, 1>>, <<42786, 42798, 2, 1>>, <<42802, 42862, 2, 1>>,
      <<42873, 42875, 2, 1>>, <<42877, 42877, 1, -35332>>,
      <<42878, 42886, 2, 1>>, <<42891, 42891, 1, 1>>,
      <<42893, 42893, 1, -42280>>, <<42896, 42898, 2, 1>>,
      <<42902, 42920, 2, 1>>, <<42922, 42922, 1, -42308>>,
      <<42923, 42923, 1, -42319>>, <<42924, 42924, 1, -42315>>,
      <<42925, 42925, 1, -42305>>, <<42926, 42926, 1, -42308>>,
      <<42928, 42928, 1, -42258>>, <<42929, 42929, 1, -42282>>,
      <<42930, 42930, 1, -42261>>, <<42931, 42931, 1, 928>>,
      <<42932, 42946, 2, 1>>, <<42948, 42948, 1, -48>>,
      <<42949, 42949, 1, -42307>>, <<42950, 42950, 1, -35384>>,
      <<42951, 42953, 2, 1>>, <<42960, 42960, 1, 1>>, <<42966, 42968, 2, 1>>,
      <<42997, 42997, 1, 1>>, <<65313, 65338, 1, 32>>,
      <<66560, 66599, 1, 40>>, <<66736, 66771, 1, 40>>,
      <<66928, 66964, 2, 39>>, <<66929, 66937, 2, 39>>,
      <<66941, 66953, 2, 39>>, <<66957, 66961, 2, 39>>,
      <<66965, 66965, 1, 39>>, <<68736, 68786, 1, 64>>,
      <<71840, 71871, 1, 32>>, <<93760, 93791, 1, 32>>,
      <<125184, 125217, 1, 34>> }

\* the characters str.lower() skips when it looks for the neighbours of a
\* capital sigma (case-ignorable), as <<first, last>>
CaseIgnorableRanges ==
    { <<39, 39>>, <<46, 46>>, <<58, 58>>, <<94, 94>>, <<96, 96>>,
      <<168, 168>>, <<173, 173>>, <<175, 175>>, <<180, 180>>, <<183, 184>>,
      <<688, 879>>, <<884, 885>>, <<890, 890>>, <<900, 901>>, <<903, 903>>,
      <<1155, 1161>>, <<1369, 1369>>, <<1375, 1375>>, <<1425, 1469>>,
      <<1471, 1471>>, <<1473, 1474>>, <<1476, 1477>>, <<1479, 1479>>,
      <<1524, 1524>>, <<1536, 1541>>, <<1552, 1562>>, <<1564, 1564>>,
      <<1600, 1600>>, <<1611, 1631>>, <<1648, 1648>>, <<1750, 1757>>,
      <<1759, 1768>>, <<1770, 1773>>, <<1807, 1807>>, <<1809, 1809>>,
      <<1840, 1866>>, <<1958, 1968>>, <<2027, 2037>>, <<2042, 2042>>,
      <<2045, 2045>>, <<2070, 2093>>, <<2137, 2139>>, <<2184, 2184>>,
      <<2192, 2193>>, <<2200, 2207>>, <<2249, 2306>>, <<2362, 2362>>,
      <<2364, 2364>>, <<2369, 2376>>, <<2381, 2381>>, <<2385, 2391>>,
      <<2402, 2403>>, <<2417, 2417>>, <<2433, 2433>>, <<2492, 2492>>,
      <<2497, 2500>>, <<2509, 2509>>, <<2530, 2531>>, <<2558, 2558>>,
      <<2561, 2562>>, <<2620, 2620>>, <<2625, 2626>>, <<2631, 2632>>,
      <<2635, 2637>>, <<2641, 2641>>, <<2672, 2673>>, <<2677, 2677>>,
      <<2689, 2690>>, <<2748, 2748>>, <<2753, 2757>>, <<2759, 2760>>,
      <<2765, 2765>>, <<2786, 2787>>, <<2810, 2815>>, <<2817, 2817>>,
      <<2876, 2876>>, <<2879, 2879>>, <<2881, 2884>>, <<2893, 2893>>,
      <<2901, 2902>>, <<2914, 2915>>, <<2946, 2946>>, <<3008, 3008>>,
      <<3021, 3021>>, <<3072, 3072>>, <<3076, 3076>>, <<3132, 3132>>,
      <<3134, 3136>>, <<3142, 3144>>, <<3146, 3149>>, <<3157, 3158>>,
      <<3170, 3171>>, <<3201, 3201>>, <<3260, 3260>>, <<3263, 3263>>,
      <<3270, 3270>>, <<3276, 3277>>, <<3298, 3299>>, <<3328, 3329>>,
      <<3387, 3388>>, <<3393, 3396>>, <<3405, 3405>>, <<3426, 3427>>,
      <<3457, 3457>>, <<3530, 3530>>, <<3538, 3540>>, <<3542, 3542>>,
      <<3633, 3633>>, <<3636, 3642>>, <<3654, 3662>>, <<3761, 3761>>,
      <<3764, 3772>>, <<3782, 3782>>, <<3784, 3789>>, <<3864, 3865>>,
      <<3893, 3893>>, <<3895, 3895>>, <<3897, 3897>>, <<3953, 3966>>,
      <<3968, 3972>>, <<3974, 3975>>, <<3981, 3991>>, <<3993, 4028>>,
      <<4038, 4038>>, <<4141, 4144>>, <<4146, 4151>>, <<4153, 4154>>,
      <<4157, 4158>>, <<4184, 4185>>, <<4190, 4192>>, <<4209, 4212>>,
      <<4226, 4226>>, <<4229, 4230>>, <<4237, 4237>>, <<4253, 4253>>,
      <<4348, 4348>>, <<4957, 4959>>, <<5906, 5908>>, <<5938, 5939>>,
      <<5970, 5971>>, <<6002, 6003>>, <<6068, 6069>>, <<6071, 6077>>,
      <<6086, 6086>>, <<6089, 6099>>, <<6103, 6103>>, <<6109, 6109>>,
      <<6155, 6159>>, <<6211, 6211>>, <<6277, 6278>>, <<6313, 6313>>,
      <<6432, 6434>>, <<6439, 6440>>, <<6450, 6450>>, <<6457, 6459>>,
      <<6679, 6680>>, <<6683, 6683>>, <<6742, 6742>>, <<6744, 6750>>,
      <<6752, 6752>>, <<6754, 6754>>, <<6757, 6764>>, <<6771, 6780>>,
      <<6783, 6783>>, <<6823, 6823>>, <<6832, 6862>>, <<6912, 6915>>,
      <<6964, 6964>>, <<6966, 6970>>, <<6972, 6972>>, <<6978, 6978>>,
      <<7019, 7027>>, <<7040, 7041>>, <<7074, 7077>>, <<7080, 7081>>,
      <<7083, 7085>>, <<7142, 7142>>, <<7144, 7145>>, <<7149, 7149>>,
      <<7151, 7153>>, <<7212, 7219>>, <<7222, 7223>>, <<7288, 7293>>,
      <<7376, 7378>>, <<7380, 7392>>, <<7394, 7400>>, <<7405, 7405>>,
      <<7412, 7412>>, <<7416, 7417>>, <<7468, 7530>>, <<7544, 7544>>,
      <<7579, 7679>>, <<8125, 8125>>, <<8127, 8129>>, <<8141, 8143>>,
      <<8157, 8159>>, <<8173, 8175>>, <<8189, 8190>>, <<8203, 8207>>,
      <<8216, 8217>>, <<8228, 8228>>, <<8231, 8231>>, <<8234, 8238>>,
      <<8288, 8292>>, <<8294, 8303>>, <<8305, 8305>>, <<8319, 8319>>,
      <<8336, 8348>>, <<8400, 8432>>, <<11388, 11389>>, <<11503, 11505>>,
      <<11631, 11631>>, <<11647, 11647>>, <<11744, 11775>>, <<11823, 11823>>,
      <<12293, 12293>>, <<12330, 12333>>, <<12337, 12341>>, <<12347, 12347>>,
      <<12441, 12446>>, <<12540, 12542>>, <<40981, 40981>>, <<42232, 42237>>,
      <<42508, 42508>>, <<42607, 42610>>, <<42612, 42621>>, <<42623, 42623>>,
      <<42652, 42655>>, <<42736, 42737>>, <<42752, 42785>>, <<42864, 42864>>,
      <<42888, 42890>>, <<42994, 42996>>, <<43000, 43001>>, <<43010, 43010>>,
      <<43014, 43014>>, <<43019, 43019>>, <<43045, 43046>>, <<43052, 43052>>,
      <<43204, 43205>>, <<43232, 43249>>, <<43263, 43263>>, <<43302, 43309>>,
      <<43335, 43345>>, <<43392, 43394>>, <<43443, 43443>>, <<43446, 43449>>,
      <<43452, 43453>>, <<43471, 43471>>, <<43493, 43494>>, <<43561, 43566>>,
      <<43569, 43570>>, <<43573, 43574>>, <<43587, 43587>>, <<43596, 43596>>,
      <<43632, 43632>>, <<43644, 43644>>, <<43696, 43696>>, <<43698, 43700>>,
      <<43703, 43704>>, <<43710, 43711>>, <<43713, 43713>>, <<43741, 43741>>,
      <<43756, 43757>>, <<43763, 43764>>, <<43766, 43766>>, <<43867, 43871>>,
      <<43881, 43883>>, <<44005, 44005>>, <<44008, 44008>>, <<44013, 44013>>,
      <<64286, 64286>>, <<64434, 64450>>, <<65024, 65039>>, <<65043, 65043>>,
      <<65056, 65071>>, <<65106, 65106>>, <<65109, 65109>>, <<65279, 65279>>,
      <<65287, 65287>>, <<65294, 65294>>, <<65306, 65306>>, <<65342, 65342>>,
      <<65344, 65344>>, <<65392, 65392>>, <<65438, 65439>>, <<65507, 65507>>,
      <<65529, 65531>>, <<66045, 66045>>, <<66272, 66272>>, <<66422, 66426>>,
      <<67456, 67461>>, <<67463, 67504>>, <<67506, 67514>>, <<68097, 68099>>,
      <<68101, 68102>>, <<68108, 68111>>, <<68152, 68154>>, <<68159, 68159>>,
      <<68325, 68326>>, <<68900, 68903>>, <<69291, 69292>>, <<69446, 69456>>,
      <<69506, 69509>>, <<69633, 69633>>, <<69688, 69702>>, <<69744, 69744>>,
      <<69747, 69748>>, <<69759, 69761>>, <<69811, 69814>>, <<69817, 69818>>,
      <<69821, 69821>>, <<69826, 69826>>, <<69837, 69837>>, <<69888, 69890>>,
      <<69927, 69931>>, <<69933, 69940>>, <<70003, 70003>>, <<70016, 70017>>,
      <<70070, 70078>>, <<70089, 70092>>, <<70095, 70095>>, <<70191, 70193>>,
      <<70196, 70196>>, <<70198, 70199>>, <<70206, 70206>>, <<70367, 70367>>,
      <<70371, 70378>>, <<70400, 70401>>, <<70459, 70460>>, <<70464, 70464>>,
      <<70502, 70508>>, <<70512, 70516>>, <<70712, 70719>>, <<70722, 70724>>,
      <<70726, 70726>>, <<70750, 70750>>, <<70835, 70840>>, <<70842, 70842>>,
      <<70847, 70848>>, <<70850, 70851>>, <<71090, 71093>>, <<71100, 71101>>,
      <<71103, 71104>>, <<71132, 71133>>, <<71219, 71226>>, <<71229, 71229>>,
      <<71231, 71232>>, <<71339, 71339>>, <<71341, 71341>>, <<71344, 71349>>,
      <<71351, 71351>>, <<71453, 71455>>, <<71458, 71461>>, <<71463, 71467>>,
      <<71727, 71735>>, <<71737, 71738>>, <<71995, 71996>>, <<71998, 71998>>,
      <<72003, 72003>>, <<72148, 72151>>, <<72154, 72155>>, <<72160, 72160>>,
      <<72193, 72202>>, <<72243, 72248>>, <<72251, 72254>>, <<72263, 72263>>,
      <<72273, 72278>>, <<72281, 72283>>, <<72330, 72342>>, <<72344, 72345>>,
      <<72752, 72758>>, <<72760, 72765>>, <<72767, 72767>>, <<72850, 72871>>,
      <<72874, 72880>>, <<72882, 72883>>, <<72885, 72886>>, <<73009, 73014>>,
      <<73018, 73018>>, <<73020, 73021>>, <<73023, 73029>>, <<73031, 73031>>,
      <<73104, 73105>>, <<73109, 73109>>, <<73111, 73111>>, <<73459, 73460>>,
      <<78896, 78904>>, <<92912, 92916>>, <<92976, 92982>>, <<92992, 92995>>,
      <<94031, 94031>>, <<94095, 94111>>, <<94176, 94177>>, <<94179, 94180>>,
      <<110576, 110579>>, <<110581, 110587>>, <<110589, 110590>>,
      <<113821, 113822>>, <<113824, 113827>>, <<118528, 118573>>,
      <<118576, 118598>>, <<119143, 119145>>, <<119155, 119170>>,
      <<119173, 119179>>, <<119210, 119213>>, <<119362, 119364>>,
      <<121344, 121398>>, <<121403, 121452>>, <<121461, 121461>>,
      <<121476, 121476>>, <<121499, 121503>>, <<121505, 121519>>,
      <<122880, 122886>>, <<122888, 122904>>, <<122907, 122913>>,
      <<122915, 122916>>, <<122918, 122922>>, <<123184, 123197>>,
      <<123566, 123566>>, <<123628, 123631>>, <<125136, 125142>>,
      <<125252, 125259>>, <<127995, 127999>>, <<917505, 917505>>,
      <<917536, 917631>>, <<917760, 917999>> }

\* the cased characters among those it does not skip, as <<first, last>>
CasedRanges ==
    { <<65, 90>>, <<97, 122>>, <<170, 170>>, <<181, 181>>, <<186, 186>>,
      <<192, 214>>, <<216, 246>>, <<248, 442>>, <<444, 447>>, <<452, 659>>,
      <<661, 687>>, <<880, 883>>, <<886, 887>>, <<891, 893>>, <<895, 895>>,
      <<902, 902>>, <<904, 906>>, <<908, 908>>, <<910, 929>>, <<931, 1013>>,
      <<1015, 1153>>, <<1162, 1327>>, <<1329, 1366>>, <<1376, 1416>>,
      <<4256, 4293>>, <<4295, 4295>>, <<4301, 4301>>, <<4304, 4346>>,
      <<4349, 4351>>, <<5024, 5109>>, <<5112, 5117>>, <<7296, 7304>>,
      <<7312, 7354>>, <<7357, 7359>>, <<7424, 7467>>, <<7531, 7543>>,
      <<7545, 7578>>, <<7680, 7957>>, <<7960, 7965>>, <<7968, 8005>>,
      <<8008, 8013>>, <<8016, 8023>>, <<8025, 8025>>, <<8027, 8027>>,
      <<8029, 8029>>, <<8031, 8061>>, <<8064, 8116>>, <<8118, 8124>>,
      <<8126, 8126>>, <<8130, 8132>>, <<8134, 8140>>, <<8144, 8147>>,
      <<8150, 8155>>, <<8160, 8172>>, <<8178, 8180>>, <<8182, 8188>>,
      <<8450, 8450>>, <<8455, 8455>>, <<8458, 8467>>, <<8469, 8469>>,
      <<8473, 8477>>, <<8484, 8484>>, <<8486, 8486>>, <<8488, 8488>>,
      <<8490, 8493>>, <<8495, 8500>>, <<8505, 8505>>, <<8508, 8511>>,
      <<8517, 8521>>, <<8526, 8526>>, <<8544, 8575>>, <<8579, 8580>>,
      <<9398, 9449>>, <<11264, 11387>>, <<11390, 11492>>, <<11499, 11502>>,
      <<11506, 11507>>, <<11520, 11557>>, <<11559, 11559>>, <<11565, 11565>>,
      <<42560, 42605>>, <<42624, 42651>>, <<42786, 42863>>, <<42865, 42887>>,
      <<42891, 42894>>, <<42896, 42954>>, <<42960, 42961>>, <<42963, 42963>>,
      <<42965, 42969>>, <<42997, 42998>>, <<43002, 43002>>, <<43824, 43866>>,
      <<43872, 43880>>, <<43888, 43967>>, <<64256, 64262>>, <<64275, 64279>>,
      <<65313, 65338>>, <<65345, 65370>>, <<66560, 66639>>, <<66736, 66771>>,
      <<66776, 66811>>, <<66928, 66938>>, <<66940, 66954>>, <<66956, 66962>>,
      <<66964, 66965>>, <<66967, 66977>>, <<66979, 66993>>, <<66995, 67001>>,
      <<67003, 67004>>, <<68736, 68786>>, <<68800, 68850>>, <<71840, 71903>>,
      <<93760, 93823>>, <<119808, 119892>>, <<119894, 119964>>,
      <<119966, 119967>>, <<119970, 119970>>, <<119973, 119974>>,
      <<119977, 119980>>, <<119982, 119993>>, <<119995, 119995>>,
      <<119997, 120003>>, <<120005, 120069>>, <<120071, 120074>>,
      <<120077, 120084>>, <<120086, 120092>>, <<120094, 120121>>,
      <<120123, 120126>>, <<120128, 120132>>, <<120134, 120134>>,
      <<120138, 120144>>, <<120146, 120485>>, <<120488, 120512>>,
      <<120514, 120538>>, <<120540, 120570>>, <<120572, 120596>>,
      <<120598, 120628>>, <<120630, 120654>>, <<120656, 120686>>,
      <<120688, 120712>>, <<120714, 120744>>, <<120746, 120770>>,
      <<120772, 120779>>, <<122624, 122633>>, <<122635, 122654>>,
      <<125184, 125251>>, <<127280, 127305>>, <<127312, 127337>>,
      <<127344, 127369>> }

-----------------------------------------------------------------------------
(* The str methods the parser uses                                         *)

\* first position >= i holding a character outside cs, Len(s)+1 if none
RECURSIVE SkipSet(_, _, _)
SkipSet(s, i, cs) ==
    IF i <= Len(s) /\ Char(s, i) \in cs THEN SkipSet(s, i + 1, cs) ELSE i

\* last position <= i holding a character outside cs, 0 if none
RECURSIVE SkipSetBack(_, _, _)
SkipSetBack(s, i, cs) ==
    IF i >= 1 /\ Char(s, i) \in cs THEN SkipSetBack(s, i - 1, cs) ELSE i

\* str.strip(chars)
StripSet(s, cs) ==
    LET a == SkipSet(s, 1, cs)
        b == SkipSetBack(s, Len(s), cs)
    IN  IF a > b THEN <<>> ELSE SubSeq(s, a, b)

\* the currency marker of PRICE_LINE_RE: the three characters U+201A U+00C7 U+00A8
\* of the pattern's source text
EURO == <<8218, 199, 168>>

\* s[i:].startswith(lit), 1-based
StartsAt(s, i, lit) ==
    /\ i >= 1
    /\ i + Len(lit) - 1 <= Len(s)
    /\ SubSeq(s, i, i + Len(lit) - 1) = lit

SkipSpaces(s, i) == SkipSet(s, i, Whitespace)

\* str.strip()
Strip(s) == StripSet(s, Whitespace)

InRanges(c, ranges) == \E r \in ranges : c >= r[1] /\ c <= r[2]

\* c.lower() of a character other than capital sigma
LowerChar(c) ==
    IF c < 128 THEN <<IF c \in UpperAscii THEN c + 32 ELSE c>>
    ELSE IF c = 304 THEN <<105, 775>>
    ELSE LET hit == {r \in LowerRanges : c >= r[1] /\ c <= r[2] /\ (c - r[1]) % r[3] = 0}
         IN  IF hit = {} THEN <<c>> ELSE <<c + (CHOOSE r \in hit : TRUE)[4]>>

\* last position <= i holding a character that is not case-ignorable, 0 if none
RECURSIVE SkipIgnorableBack(_, _)
SkipIgnorableBack(s, i) ==
    IF i >= 1 /\ InRanges(s[i], CaseIgnorableRanges) THEN SkipIgnorableBack(s, i - 1) ELSE i

\* first position >= i holding a character that is not case-ignorable, Len(s)+1 if none
RECURSIVE SkipIgnorable(_, _)
SkipIgnorable(s, i) ==
    IF i <= Len(s) /\ InRanges(s[i], CaseIgnorableRanges) THEN SkipIgnorable(s, i + 1) ELSE i

\* is the capital sigma at i the last letter of its word (a cased character before
\* it and none after it, case-ignorable characters skipped)?
FinalSigma(s, i) ==
    LET j == SkipIgnorableBack(s, i - 1)
        k == SkipIgnorable(s, i + 1)
    IN  /\ j >= 1
        /\ InRanges(s[j], CasedRanges)
        /\ (k > Len(s) \/ ~InRanges(s[k], CasedRanges))

\* str.lower()
RECURSIVE LowerFrom(_, _)
LowerFrom(s, i) ==
    IF i > Len(s) THEN <<>>
    ELSE (IF s[i] = 931 THEN <<IF FinalSigma(s, i) THEN 962 ELSE 963>> ELSE LowerChar(s[i]))
         \o LowerFrom(s, i + 1)

Lower(s) == LowerFrom(s, 1)

\* `sub in s`
Contains(s, sub) == \E i \in 1..(Len(s) + 1) : StartsAt(s, i, sub)

\* first position >= i holding a character of set cs, Len(s)+1 if none
RECURSIVE FindChar(_, _, _)
FindChar(s, i, cs) ==
    IF i <= Len(s) /\ Char(s, i) \notin cs THEN FindChar(s, i + 1, cs) ELSE i

\* str.splitlines(): "\r\n" is one boundary, no trailing empty line
RECURSIVE SplitLinesFrom(_, _)
SplitLinesFrom(s, i) ==
    IF i > Len(s) THEN <<>>
    ELSE LET b == FindChar(s, i, LineBreaks)
             n == IF StartsAt(s, b, <<13, 10>>) THEN b + 2 ELSE b + 1
         IN  <<SubSeq(s, i, b - 1)>> \o SplitLinesFrom(s, n)

SplitLines(s) == SplitLinesFrom(s, 1)

\* str.split(sep) for a one-character separator
RECURSIVE SplitOnFrom(_, _, _)
SplitOnFrom(s, i, sep) ==
    LET b == FindChar(s, i, {sep})
    IN  IF b > Len(s) THEN <<SubSeq(s, i, Len(s))>>
        ELSE <<SubSeq(s, i, b - 1)>> \o SplitOnFrom(s, b + 1, sep)

SplitOn(s, sep) == SplitOnFrom(s, 1, sep)

\* sep.join(parts)
RECURSIVE Join(_, _)
Join(parts, sep) ==
    IF parts = <<>> THEN <<>>
    ELSE IF Len(parts) = 1 THEN parts[1]
    ELSE parts[1] \o sep \o Join(Tail(parts), sep)

\* [l.strip() for l in ls if l.strip()]
RECURSIVE SelectNonBlankStripped(_)
SelectNonBlankStripped(ls) ==
    IF ls = <<>> THEN <<>>
    ELSE IF Strip(Head(ls)) = <<>> THEN SelectNonBlankStripped(Tail(ls))
    ELSE <<Strip(Head(ls))>> \o SelectNonBlankStripped(Tail(ls))

Range(f) == {f[i] : i \in DOMAIN f}

-----------------------------------------------------------------------------
(* PRICE_LINE_RE: (\d{1,2},\d{2})\s*E\s*\|\s*(\d{1,2},\d{2})\s*E\s*\|\s*   *)
(* (\d{1,2},\d{2})\s*E  with E the currency marker.  Every choice point of *)
(* the pattern is decided by the next character, so a match at a given     *)
(* start is unique.  Each operator returns the position just past what it  *)
(* matched, 0 for no match.                                                *)

\* \d{1,2},\d{2} at i
AmountEnd(s, i) ==
    IF ~IsDigit(Char(s, i)) THEN 0
    ELSE IF IsDigit(Char(s, i + 1))
         THEN IF Char(s, i + 2) = COMMA /\ IsDigit(Char(s, i + 3)) /\ IsDigit(Char(s, i + 4))
              THEN i + 5 ELSE 0
         ELSE IF Char(s, i + 1) = COMMA /\ IsDigit(Char(s, i + 2)) /\ IsDigit(Char(s, i + 3))
              THEN i + 4 ELSE 0

\* \s*E at i
EuroEnd(s, i) ==
    LET j == SkipSpaces(s, i)
    IN  IF StartsAt(s, j, EURO) THEN j + Len(EURO) ELSE 0

\* \s*\|\s* at i
PipeEnd(s, i) ==
    LET j == SkipSpaces(s, i)
    IN  IF Char(s, j) = PIPE THEN SkipSpaces(s, j + 1) ELSE 0

\* (amount)\s*E at i
TierEnd(s, i) ==
    LET a == AmountEnd(s, i)
    IN  IF a = 0 THEN 0 ELSE EuroEnd(s, a)

\* the whole pattern at i
PriceMatchEnd(s, i) ==
    LET t1 == TierEnd(s, i)
        p1 == IF t1 = 0 THEN 0 ELSE PipeEnd(s, t1)
        t2 == IF p1 = 0 THEN 0 ELSE TierEnd(s, p1)
        p2 == IF t2 = 0 THEN 0 ELSE PipeEnd(s, t2)
    IN  IF p2 = 0 THEN 0 ELSE TierEnd(s, p2)

\* start of the leftmost match at a position >= i, 0 for none
RECURSIVE PriceSearchFrom(_, _)
PriceSearchFrom(line, i) ==
    IF i > Len(line) THEN 0
    ELSE IF PriceMatchEnd(line, i) # 0 THEN i
    ELSE PriceSearchFrom(line, i + 1)

\* PRICE_LINE_RE.search(line): start of the leftmost match, 0 for None
PriceSearch(line) == PriceSearchFrom(line, 1)

\* match.group(1) of PRICE_LINE_RE.search(line), which matched
PriceGroup1(line) ==
    LET i == PriceSearch(line)
    IN  SubSeq(line, i, AmountEnd(line, i) - 1)

\* the value float() gives a digit
DigitVal(c) == c - (CHOOSE z \in DigitZeros : c \in z..(z + 9))

\* the number a str of digits writes
RECURSIVE ParseInt(_)
ParseInt(s) ==
    IF s = <<>> THEN 0
    ELSE 10 * ParseInt(SubSeq(s, 1, Len(s) - 1)) + DigitVal(Char(s, Len(s)))

\* float(g.replace(",", ".")) for g = "d,dd" or "dd,dd", in cents
PriceCents(g) ==
    LET parts == SplitOn(g, COMMA)
    IN  100 * ParseInt(parts[1]) + ParseInt(parts[2])

\* any(PRICE_LINE_RE.search(line) for line in cell_text.splitlines())
HasPriceLine(cell_text) ==
    LET lines == SplitLines(cell_text)
    IN  \E k \in DOMAIN lines : PriceSearch(lines[k]) # 0

-----------------------------------------------------------------------------
(* Config                                                                  *)

\* {w.strip().lower() for w in raw.split(",") if w.strip()}
NameSet(raw) ==
    {Lower(Strip(w)) : w \in {x \in Range(SplitOn(raw, COMMA)) : Strip(x) # <<>>}}

\* Config.filter_words
filter_words == NameSet(filter_words_raw)

\* Config.filter_allergen_names
filter_allergen_names == NameSet(filter_allergens_raw)

-----------------------------------------------------------------------------
(* Dish extractor: _parse_dish_from_cell                                   *)

\* [line.strip() for line in cell_text.splitlines() if line.strip()]
CellLines(cell_text) == SelectNonBlankStripped(SplitLines(cell_text))

\* the loop over reversed(list(enumerate(lines))) from index i down: the index of
\* the last line PRICE_LINE_RE finds a match in, 0 for none
RECURSIVE PriceIdxFrom(_, _)
PriceIdxFrom(lines, i) ==
    IF i = 0 THEN 0
    ELSE IF PriceSearch(lines[i]) # 0 THEN i
    ELSE PriceIdxFrom(lines, i - 1)

PriceIdx(lines) == PriceIdxFrom(lines, Len(lines))

\* lines[:price_idx] if price_idx != -1 else lines
TitleLines(lines, price_idx) ==
    IF price_idx # 0 THEN SubSeq(lines, 1, price_idx - 1) ELSE lines

\* re.sub(r'-\s+|\s+', ' ', s) from position i on: the text up to the next hyphen
\* or whitespace is copied; a hyphen before whitespace and the whitespace run, or
\* a whitespace run alone, become one space; any other hyphen is copied
RECURSIVE CollapseFrom(_, _)
CollapseFrom(s, i) ==
    LET b    == FindChar(s, i, Whitespace \cup {HYPHEN})
        kept == SubSeq(s, i, b - 1)
    IN  IF b > Len(s) THEN kept
        ELSE IF Char(s, b) = HYPHEN /\ IsSpace(Char(s, b + 1))
             THEN kept \o <<SPACE>> \o CollapseFrom(s, SkipSpaces(s, b + 1))
        ELSE IF IsSpace(Char(s, b))
             THEN kept \o <<SPACE>> \o CollapseFrom(s, SkipSpaces(s, b))
        ELSE kept \o <<HYPHEN>> \o CollapseFrom(s, b + 1)

\* re.sub(r'-\s+|\s+', ' ', " ".join(title_lines)).strip()
FullTitle(title_lines) == Strip(CollapseFrom(Join(title_lines, <<SPACE>>), 1))

\* the character class [0-9,\s\.a-z] of ALLERGEN_TAIL_RE
AllergenClass == AsciiDigits \cup {COMMA, DOT} \cup Whitespace \cup LowerAscii

\* ALLERGEN_TAIL_RE = (.*?)\s*(\([0-9,\s\.a-z]+\))\s*$ tried with group 1 of
\* length k: the position of the closing parenthesis, 0 for no match
TailMatchAt(s, k) ==
    LET p == SkipSpaces(s, k + 1)
        q == SkipSet(s, p + 1, AllergenClass)
    IN  IF /\ Char(s, p) = LPAREN
           /\ q > p + 1
           /\ Char(s, q) = RPAREN
           /\ SkipSpaces(s, q + 1) = Len(s) + 1
        THEN q ELSE 0

\* the lazy group 1 grown from length k on; "." takes no newline
RECURSIVE TailMatchFrom(_, _)
TailMatchFrom(s, k) ==
    IF k > Len(s) \/ Char(s, k) = NEWLINE THEN -1
    ELSE IF TailMatchAt(s, k) # 0 THEN k
    ELSE TailMatchFrom(s, k + 1)

\* ALLERGEN_TAIL_RE.match(s): the length of group 1, -1 for None
TailMatch(s) == IF TailMatchAt(s, 0) # 0 THEN 0 ELSE TailMatchFrom(s, 1)

\* allergen_match.group(2), for tail = TailMatch(s) # -1
TailGroup2(s, tail) == SubSeq(s, SkipSpaces(s, tail + 1), TailMatchAt(s, tail))

\* the title after the allergen parenthetical is split off, for tail = TailMatch(full_title)
DishTitle(full_title, tail) ==
    IF tail # -1 THEN Strip(SubSeq(full_title, 1, tail)) ELSE full_title

\* {code.strip() for code in group(2).strip("()").split(",") if code.strip()}
DishAllergens(full_title, tail) ==
    IF tail # -1
    THEN {Strip(code) : code \in
            {c \in Range(SplitOn(StripSet(TailGroup2(full_title, tail), {LPAREN, RPAREN}),
                                 COMMA)) :
                Strip(c) # <<>>}}
    ELSE {}

\* Category with the comparison made strict
Category_Exclusive(price) == IF price < 100 THEN "side" ELSE "main"

\* "side" if price <= 1.0 else "main"
Category(price) == IF price <= 100 THEN "side" ELSE "main"

\* WordFiltered without lowercasing the title
WordFiltered_CaseSensitive(title) ==
    filter_words # {} /\ \E word \in filter_words : Contains(title, word)

\* any(word in title.lower() for word in self.config.filter_words)
WordFiltered(title) ==
    LET lowered == Lower(title)
    IN  filter_words # {} /\ \E word \in filter_words : Contains(lowered, word)

\* allergens.intersection(self.filter_allergen_numbers)
AllergenFiltered(allergens) ==
    filter_allergen_numbers # {} /\ allergens \cap filter_allergen_numbers # {}

\* _parse_dish_from_cell: <<>> for None, <<dish>> for a Dish
ParseDishFromCell(cell_text) ==
    LET lines      == CellLines(cell_text)
        price_idx  == PriceIdx(lines)
        full_title == FullTitle(TitleLines(lines, price_idx))
        tail       == TailMatch(full_title)
        title      == DishTitle(full_title, tail)
        allergens  == DishAllergens(full_title, tail)
    IN  IF lines = <<>> THEN <<>>
        ELSE IF price_idx = 0 \/ Len(title) < 5 THEN <<>>
        ELSE IF WordFiltered(title) THEN <<>>
        ELSE IF AllergenFiltered(allergens) THEN <<>>
        ELSE LET price == PriceCents(PriceGroup1(lines[price_idx]))
             IN  <<[title     |-> title,
                    price     |-> price,
                    category  |-> Category(price),
                    allergens |-> allergens]>>

-----------------------------------------------------------------------------
(* Legend resolver: ALLERGEN_MAP_RE =                                      *)
(*   (\d+[a-z]?)\s+([A-Z...][^\d\n]+?)(?=\s+\d+[a-z]?|\s*$)   (MULTILINE) *)
(* whose first class holds, besides A-Z, the characters U+221A, U+00D1,    *)
(* U+00F1 and U+00FA of the pattern's source text.                         *)

\* the first class of the name: A-Z, U+221A, U+00D1, U+00F1, U+00FA
UpperStart == UpperAscii \cup {8730, 209, 241, 250}

\* \d+[a-z]? at i: the position just past it, 0 for no match
NumberEnd(s, i) ==
    LET d == SkipSet(s, i, Digits)
    IN  IF d = i THEN 0
        ELSE IF Char(s, d) \in LowerAscii THEN d + 1 ELSE d

\* the lookahead (?=\s+\d+[a-z]?|\s*$) at q; $ is the end of the text or the
\* position before a newline
LookAhead(s, q) ==
    LET r == SkipSpaces(s, q)
    IN  \/ r > q /\ IsDigit(Char(s, r))
        \/ \E t \in q..r : t = Len(s) + 1 \/ Char(s, t) = NEWLINE

\* the lazy name [A-Z...][^\d\n]+? starting at w, grown to end at e or later: the
\* position just past the shortest name the lookahead accepts, 0 for no match
RECURSIVE NameEndFrom(_, _)
NameEndFrom(s, e) ==
    IF e > Len(s) \/ IsDigit(Char(s, e)) \/ Char(s, e) = NEWLINE THEN 0
    ELSE IF LookAhead(s, e + 1) THEN e + 1
    ELSE NameEndFrom(s, e + 1)

NameEnd(s, w) == IF Char(s, w) \in UpperStart THEN NameEndFrom(s, w + 1) ELSE 0

\* the whole pattern at i: <<start of the name, position just past it>>, or <<>>
LegendMatchAt(s, i) ==
    LET n == NumberEnd(s, i)
        w == IF n = 0 THEN 0 ELSE SkipSpaces(s, n)
        e == IF n = 0 \/ w = n THEN 0 ELSE NameEnd(s, w)
    IN  IF e = 0 THEN <<>> ELSE <<w, e>>

\* ALLERGEN_MAP_RE.finditer(s) from position pos on: the (group 1, group 2) pairs
RECURSIVE FindLegendFrom(_, _)
FindLegendFrom(s, pos) ==
    LET m == LegendMatchAt(s, pos)
    IN  IF pos > Len(s) THEN <<>>
        ELSE IF m = <<>> THEN FindLegendFrom(s, pos + 1)
        ELSE <<[number |-> SubSeq(s, pos, NumberEnd(s, pos) - 1),
                name   |-> SubSeq(s, m[1], m[2] - 1)]>>
             \o FindLegendFrom(s, m[2])

LegendMatches(s) == FindLegendFrom(s, 1)

\* re.sub(r"\s*\([^)]+\)|:$", "", s) from position i on
RECURSIVE CleanNameFrom(_, _)
CleanNameFrom(s, i) ==
    LET p == SkipSpaces(s, i)
        r == FindChar(s, p + 1, {RPAREN})
    IN  IF i > Len(s) THEN <<>>
        ELSE IF Char(s, p) = LPAREN /\ r <= Len(s) /\ r > p + 1
             THEN CleanNameFrom(s, r + 1)
        ELSE IF /\ Char(s, i) = COLON
                /\ (i = Len(s) \/ (i = Len(s) - 1 /\ Char(s, Len(s)) = NEWLINE))
             THEN CleanNameFrom(s, i + 1)
        ELSE <<Char(s, i)>> \o CleanNameFrom(s, i + 1)

\* name_clean of a match
NameClean(match) == Lower(Strip(CleanNameFrom(Strip(match.name), 1)))

\* name_clean.split()[0] for a non-blank name
FirstWord(name_clean) ==
    LET a == SkipSpaces(name_clean, 1)
    IN  SubSeq(name_clean, a, FindChar(name_clean, a, Whitespace) - 1)

\* d[k] = v
DictSet(d, k, v) == [x \in DOMAIN d \cup {k} |-> IF x = k THEN v ELSE d[x]]

\* is the entry kept (len(name_clean) >= 3)?
Retained(match) == Len(NameClean(match)) >= 3

\* ExtractEntry without the insertion of the first word
ExtractEntry_NoFirstWord(map, match) ==
    IF Len(NameClean(match)) < 3 THEN map
    ELSE DictSet(map, NameClean(match), match.number)

\* one iteration of the loop of _extract_allergen_mapping
ExtractEntry(map, match) ==
    LET name_clean == NameClean(match)
        first_word == FirstWord(name_clean)
        with_name  == DictSet(map, name_clean, match.number)
    IN  IF Len(name_clean) < 3 THEN map
        ELSE IF first_word # name_clean
             THEN DictSet(with_name, first_word, match.number)
             ELSE with_name

EmptyDict == [x \in {} |-> <<>>]

\* the mapping after the first n matches
RECURSIVE ExtractFirst(_, _)
ExtractFirst(matches, n) ==
    IF n = 0 THEN EmptyDict
    ELSE ExtractEntry(ExtractFirst(matches, n - 1), matches[n])

\* _extract_allergen_mapping
ExtractAllergenMapping(text) ==
    ExtractFirst(LegendMatches(text), Len(LegendMatches(text)))

\* _resolve_filter_allergens
ResolveFilterAllergens(map, names) == {map[name] : name \in names \cap DOMAIN map}

-----------------------------------------------------------------------------
(* Cell merger: _merge_table_cells                                         *)

WEEKDAYS_DE ==
    <<"Montag", "Dienstag", "Mittwoch", "Donnerstag", "Freitag", "Samstag", "Sonntag">>

\* position of a day in WEEKDAYS_DE
DayIndex(day) == CHOOSE k \in DOMAIN WEEKDAYS_DE : WEEKDAYS_DE[k] = day

\* column indices (0-based) of Monday .. Friday
DISH_COLUMN_INDICES == <<4, 8, 12, 16, 20>>

MENU_PAGE_INDEX == 1

\* WEEKDAYS_DE[:5]
DishDays == {WEEKDAYS_DE[k] : k \in 1..5}

AllDays == Range(WEEKDAYS_DE)

\* max(DISH_COLUMN_INDICES)
MaxColumnIndex ==
    CHOOSE m \in Range(DISH_COLUMN_INDICES) : \A c \in Range(DISH_COLUMN_INDICES) : c <= m

\* RowSkipped with the "+ 1" dropped
RowSkipped_OffByOne(row) == row = <<>> \/ Len(row) < MaxColumnIndex

\* not row or len(row) < max(DISH_COLUMN_INDICES) + 1
RowSkipped(row) == row = <<>> \/ Len(row) < MaxColumnIndex + 1

\* CellBlank without the strip() test
CellBlank_NoStrip(cell) == cell = <<>> \/ cell[1] = <<>>

\* not cell_text or not cell_text.strip(), for a cell that is None (<<>>) or a str
CellBlank(cell) == cell = <<>> \/ cell[1] = <<>> \/ Strip(cell[1]) = <<>>

\* MergeCell merging into the last entry whatever its has_price
MergeCell_AlwaysMerge(entries, cell_text) ==
    LET has_price == HasPriceLine(cell_text)
        n         == Len(entries)
    IN  IF entries # <<>>
        THEN [entries EXCEPT ![n] = [text      |-> entries[n].text \o <<NEWLINE>> \o cell_text,
                                     has_price |-> has_price]]
        ELSE Append(entries, [text |-> cell_text, has_price |-> has_price])

\* MergeCell with the "not" of its test dropped
MergeCell_MergeIntoPriced(entries, cell_text) ==
    LET has_price == HasPriceLine(cell_text)
        n         == Len(entries)
    IN  IF entries # <<>> /\ entries[n].has_price
        THEN [entries EXCEPT ![n] = [text      |-> entries[n].text \o <<NEWLINE>> \o cell_text,
                                     has_price |-> has_price]]
        ELSE Append(entries, [text |-> cell_text, has_price |-> has_price])

\* MergeCell without the assignment of has_price on a merge
MergeCell_KeepFlag(entries, cell_text) ==
    LET has_price == HasPriceLine(cell_text)
        n         == Len(entries)
    IN  IF entries # <<>> /\ ~entries[n].has_price
        THEN [entries EXCEPT ![n] = [text      |-> entries[n].text \o <<NEWLINE>> \o cell_text,
                                     has_price |-> entries[n].has_price]]
        ELSE Append(entries, [text |-> cell_text, has_price |-> has_price])

\* MergeCell joining without the newline
MergeCell_NoNewline(entries, cell_text) ==
    LET has_price == HasPriceLine(cell_text)
        n         == Len(entries)
    IN  IF entries # <<>> /\ ~entries[n].has_price
        THEN [entries EXCEPT ![n] = [text      |-> entries[n].text \o cell_text,
                                     has_price |-> has_price]]
        ELSE Append(entries, [text |-> cell_text, has_price |-> has_price])

\* the body of the inner loop for one day and a non-blank cell_text
MergeCell(entries, cell_text) ==
    LET has_price == HasPriceLine(cell_text)
        n         == Len(entries)
    IN  IF entries # <<>> /\ ~entries[n].has_price
        THEN [entries EXCEPT ![n] = [text      |-> entries[n].text \o <<NEWLINE>> \o cell_text,
                                     has_price |-> has_price]]
        ELSE Append(entries, [text |-> cell_text, has_price |-> has_price])

\* position in zip(WEEKDAYS_DE[:5], DISH_COLUMN_INDICES) of the first day whose
\* column index is out of the row's range (row[col_idx] raises IndexError), 6 if none
FirstBadDay(row) ==
    IF \E k \in 1..5 : DISH_COLUMN_INDICES[k] >= Len(row)
    THEN CHOOSE k \in 1..5 :
            /\ DISH_COLUMN_INDICES[k] >= Len(row)
            /\ \A j \in 1..(k - 1) : DISH_COLUMN_INDICES[j] < Len(row)
    ELSE 6

\* does the body of the outer loop raise on this row?
RowRaises(row) == ~RowSkipped(row) /\ FirstBadDay(row) <= 5

\* the body of the outer loop: merged_cells after one more row
MergeRow(merged, row) ==
    IF RowSkipped(row) THEN merged
    ELSE [day \in DOMAIN merged |->
            LET k    == DayIndex(day)
                cell == row[DISH_COLUMN_INDICES[k] + 1]
            IN  IF k >= FirstBadDay(row) THEN merged[day]
                ELSE IF CellBlank(cell) THEN merged[day]
                ELSE MergeCell(merged[day], cell[1])]

\* {day: [] for day in WEEKDAYS_DE[:5]}
NoCells == [day \in DishDays |-> <<>>]

\* _merge_table_cells over a table no row of which raises
RECURSIVE MergeFirst(_, _)
MergeFirst(tbl, n) ==
    IF n = 0 THEN NoCells ELSE MergeRow(MergeFirst(tbl, n - 1), tbl[n])

MergeTableCells(tbl) == MergeFirst(tbl, Len(tbl))

-----------------------------------------------------------------------------
(* Menu builder: get_all_dishes                                            *)

\* _parse_dish_from_cell(cell['text']) for each of the first n merged cells of a day
RECURSIVE ParsedFirst(_, _)
ParsedFirst(cells, n) ==
    IF n = 0 THEN <<>>
    ELSE Append(ParsedFirst(cells, n - 1), ParseDishFromCell(cells[n].text))

ParsedCells(cells) == ParsedFirst(cells, Len(cells))

\* the parse results of the first k days of merged_cells.items()
RECURSIVE ParsedDays(_, _)
ParsedDays(merged, k) ==
    IF k = 0 THEN <<>>
    ELSE Append(ParsedDays(merged, k - 1), ParsedCells(merged[WEEKDAYS_DE[k]]))

\* the Dishes among the first n parse results, in order (lines 229-232)
RECURSIVE DishesOfFirst(_, _)
DishesOfFirst(parsed, n) ==
    IF n = 0 THEN <<>> ELSE DishesOfFirst(parsed, n - 1) \o parsed[n]

DishesOf(parsed) == DishesOfFirst(parsed, Len(parsed))

\* for each Dish of DishesOf(parsed), the index of the merged cell it was parsed from
RECURSIVE SourcesOfFirst(_, _)
SourcesOfFirst(parsed, n) ==
    IF n = 0 THEN <<>>
    ELSE SourcesOfFirst(parsed, n - 1) \o (IF parsed[n] = <<>> THEN <<>> ELSE <<n>>)

SourcesOf(parsed) == SourcesOfFirst(parsed, Len(parsed))

\* {day: [] for day in WEEKDAYS_DE}
NoDishes == [day \in AllDays |-> <<>>]

-----------------------------------------------------------------------------
(* Inputs                                                                  *)

\* rows of the menu table a run may hold
MaxRows == 3

\* legend entries a legend text is made of
MaxLegendEntries == 3

\* largest first amount, in cents, of the price lines of SpecPrice
MaxPriceCents == 250

None == <<>>
Text(t) == <<t>>

\* the price line of three amounts, each followed by currency marker m, spaced
\* "a m | b m | c m" or tight "am|bm|cm"
SpacedLine(a, b, c, m) ==
    a \o <<SPACE>> \o m \o Str(" | ") \o b \o <<SPACE>> \o m \o Str(" | ") \o c \o <<SPACE>> \o m
TightLine(a, b, c, m) == a \o m \o <<PIPE>> \o b \o m \o <<PIPE>> \o c \o m

\* a price line as PRICE_LINE_RE takes it
PriceLine(a, b, c) == SpacedLine(Str(a), Str(b), Str(c), EURO)
PriceLineTight(a, b, c) == TightLine(Str(a), Str(b), Str(c), EURO)

\* the euro sign U+20AC, and the same line written with it, which PRICE_LINE_RE
\* does not take
EuroSign == <<8364>>
EuroSignLine(a, b, c) == SpacedLine(Str(a), Str(b), Str(c), EuroSign)

\* a row of n columns holding cells[k] in the k-th day column and None elsewhere
MkRow(n, cells) ==
    [i \in 1..n |->
        IF \E k \in 1..5 : DISH_COLUMN_INDICES[k] + 1 = i
        THEN cells[CHOOSE k \in 1..5 : DISH_COLUMN_INDICES[k] + 1 = i]
        ELSE None]

RowPool ==
    { <<>>,
      MkRow(20, <<None, None, None, Text(Str("Nudeln")), Text(Str("Nudeln"))>>),
      MkRow(21, <<Text(Str("Suppe")), Text(Str("")), None, None, Text(Str("  \n "))>>),
      MkRow(21, <<Text(PriceLineTight("12,00", "13,00", "14,00")),
                  Text(Str("gulasch (2)\n") \o PriceLine("5,50", "6,00", "6,50")), None,
                  Text(Str("Broetchen\n") \o PriceLine("1,00", "1,10", "1,20")),
                  Text(<<SPACE>> \o PriceLine("0,80", "0,90", "1,00") \o Str("\r\n"))>>),
      MkRow(21, <<Text(Str("Nudeln")), Text(Str("Schweine-")),
                  Text(Str("Tofu Curry (28)\n") \o PriceLine("1,01", "2,00", "3,00")),
                  None, None>>),
      MkRow(21, <<Text(Str("Linsen-\nsuppe\n") \o EuroSignLine("3,50", "4,00", "4,50")),
                  Text(Str("Linsen-\nsuppe\n") \o PriceLine("3,50", "4,00", "4,50")),
                  None, None, None>>),
      MkRow(22, <<None, None, Text(Str("Salat mit Ei")), Text(Str("Reis")),
                  Text(Str("Pommes frites (3,8a)"))>>) }

\* (legend page text, FILTER_WORDS, FILTER_ALLERGENS) of a run
ConfigPool ==
    { [legend |-> Str("28 Soja 29 Sellerie"), words |-> Str("schwein"),
       allergens |-> Str("Soja")],
      [legend |-> Str(""), words |-> Str(""), allergens |-> Str("")],
      [legend |-> Str("3 Ei 8a Gluten (Weizen)"), words |-> Str(" Nudel, ,POMMES"),
       allergens |-> Str("gluten,milch")] }

LegendEntryPool ==
    { Str("28 Soja"), Str("29 Sellerie"), Str("30 Soja Bohnen (Tofu)"), Str("7 Ei"),
      Str("2a Milch und Laktose:"), Str("31 Milch") }

\* the legend texts of up to n entries, one entry per space-separated position
RECURSIVE LegendTexts(_)
LegendTexts(n) ==
    IF n = 0 THEN {<<>>}
    ELSE LegendTexts(n - 1)
         \cup {t \o <<SPACE>> \o e : t \in LegendTexts(n - 1) \ {<<>>}, e \in LegendEntryPool}
         \cup LegendEntryPool

-----------------------------------------------------------------------------
(* The run of get_all_dishes on a constructed MensaParser                  *)

Init ==
    /\ \E c \in ConfigPool :
        /\ last_page_text = c.legend
        /\ filter_words_raw = c.words
        /\ filter_allergens_raw = c.allergens
    /\ n_pages \in 1..2
    /\ legend_idx = Len(LegendMatches(last_page_text))
    /\ allergen_map = ExtractAllergenMapping(last_page_text)
    /\ filter_allergen_numbers = ResolveFilterAllergens(allergen_map, filter_allergen_names)
    /\ table = <<>>
    /\ merged_cells = NoCells
    /\ dishes_by_day = NoDishes
    /\ dish_source = NoDishes
    /\ pc = "start"

\* lines 218-220: the PDF has no menu page
NoMenuPage ==
    /\ pc = "start"
    /\ n_pages <= MENU_PAGE_INDEX
    /\ pc' = "done"
    /\ UNCHANGED <<last_page_text, filter_words_raw, filter_allergens_raw, n_pages,
                   legend_idx, allergen_map, filter_allergen_numbers, table,
                   merged_cells, dishes_by_day, dish_source>>

\* lines 222-225: extract_table() gave no table
NoTable ==
    /\ pc = "start"
    /\ n_pages > MENU_PAGE_INDEX
    /\ pc' = "done"
    /\ UNCHANGED <<last_page_text, filter_words_raw, filter_allergens_raw, n_pages,
                   legend_idx, allergen_map, filter_allergen_numbers, table,
                   merged_cells, dishes_by_day, dish_source>>

\* lines 154-169: the merger takes the next row of the table
MergeTableRow ==
    /\ pc \in {"start", "merging"}
    /\ n_pages > MENU_PAGE_INDEX
    /\ Len(table) < MaxRows
    /\ \E row \in RowPool :
        /\ table' = Append(table, row)
        /\ merged_cells' = MergeRow(merged_cells, row)
        /\ pc' = IF RowRaises(row) THEN "raised" ELSE "merging"
    /\ UNCHANGED <<last_page_text, filter_words_raw, filter_allergens_raw, n_pages,
                   legend_idx, allergen_map, filter_allergen_numbers,
                   dishes_by_day, dish_source>>

\* lines 228-236: the table is exhausted, every merged cell is parsed
BuildDishes ==
    LET parsed == ParsedDays(merged_cells, Cardinality(DOMAIN merged_cells))
    IN  /\ pc = "merging"
        /\ dishes_by_day' = [day \in AllDays |->
                IF day \in DOMAIN merged_cells THEN DishesOf(parsed[DayIndex(day)]) ELSE <<>>]
        /\ dish_source' = [day \in AllDays |->
                IF day \in DOMAIN merged_cells THEN SourcesOf(parsed[DayIndex(day)]) ELSE <<>>]
        /\ pc' = "done"
        /\ UNCHANGED <<last_page_text, filter_words_raw, filter_allergens_raw, n_pages,
                       legend_idx, allergen_map, filter_allergen_numbers, table,
                       merged_cells>>

Next == NoMenuPage \/ NoTable \/ MergeTableRow \/ BuildDishes

Spec == Init /\ [][Next]_vars

-----------------------------------------------------------------------------
(* The construction of a MensaParser: the loop of _extract_allergen_mapping *)
(* match by match, then _resolve_filter_allergens                           *)

InitLegend ==
    /\ last_page_text \in LegendTexts(MaxLegendEntries)
    /\ filter_words_raw = <<>>
    /\ filter_allergens_raw \in {Str("soja"), Str(" Milch ,SOJA,nuss")}
    /\ n_pages = 1
    /\ legend_idx = 0
    /\ allergen_map = EmptyDict
    /\ filter_allergen_numbers = {}
    /\ table = <<>>
    /\ merged_cells = NoCells
    /\ dishes_by_day = NoDishes
    /\ dish_source = NoDishes
    /\ pc = "legend"

\* lines 123-133: one match of ALLERGEN_MAP_RE.finditer
ExtractNextEntry ==
    /\ pc = "legend"
    /\ legend_idx < Len(LegendMatches(last_page_text))
    /\ allergen_map' = ExtractEntry(allergen_map, LegendMatches(last_page_text)[legend_idx + 1])
    /\ legend_idx' = legend_idx + 1
    /\ UNCHANGED <<last_page_text, filter_words_raw, filter_allergens_raw, n_pages,
                   filter_allergen_numbers, table, merged_cells, dishes_by_day,
                   dish_source, pc>>

\* lines 137 and 105: the mapping is returned and the filter names are resolved
ResolveFilters ==
    /\ pc = "legend"
    /\ legend_idx = Len(LegendMatches(last_page_text))
    /\ filter_allergen_numbers' = ResolveFilterAllergens(allergen_map, filter_allergen_names)
    /\ pc' = "constructed"
    /\ UNCHANGED <<last_page_text, filter_words_raw, filter_allergens_raw, n_pages,
                   legend_idx, allergen_map, table, merged_cells, dishes_by_day,
                   dish_source>>

NextLegend == ExtractNextEntry \/ ResolveFilters

SpecLegend == InitLegend /\ [][NextLegend]_vars

-----------------------------------------------------------------------------
(* One row whose Monday and Tuesday cells hold a title and a price line    *)
(* with first amounts c and c + 1 cents, merged, then parsed               *)

\* str(n) for n >= 0
RECURSIVE IntStr(_)
IntStr(n) ==
    IF n < 10 THEN <<ZERO + n>>
    ELSE IntStr(n \div 10) \o <<ZERO + (n % 10)>>

\* c cents written as on the menu: "3,50"
FormatAmount(c) ==
    IntStr(c \div 100) \o <<COMMA>> \o IntStr((c % 100) \div 10) \o IntStr(c % 10)

\* a title line, and what follows the first amount of the price line
PriceCellTitle == Str("Beilage\n")
PriceCellTiers == SpacedLine(<<>>, Str("9,00"), Str("9,50"), EURO)

\* a cell with a title line and the price line of first amount c
PriceCell(c) == PriceCellTitle \o FormatAmount(c) \o PriceCellTiers

InitPrice ==
    /\ last_page_text = <<>>
    /\ filter_words_raw = <<>>
    /\ filter_allergens_raw = <<>>
    /\ n_pages = 2
    /\ legend_idx = 0
    /\ allergen_map = ExtractAllergenMapping(last_page_text)
    /\ filter_allergen_numbers = ResolveFilterAllergens(allergen_map, filter_allergen_names)
    /\ \E c \in 0..MaxPriceCents :
        table = <<MkRow(21, <<Text(PriceCell(c)), Text(PriceCell(c + 1)), None, None, None>>)>>
    /\ merged_cells = MergeTableCells(table)
    /\ dishes_by_day = NoDishes
    /\ dish_source = NoDishes
    /\ pc = "merging"

SpecPrice == InitPrice /\ [][BuildDishes]_vars

-----------------------------------------------------------------------------
(* Vocabulary of the properties                                            *)

\* the row a MergeTableRow step has just taken
TakenRow == table'[Len(table')]

RowTaken == Len(table') = Len(table) + 1

\* the cell of a day in a row long enough to hold it
DayCell(row, day) == row[DISH_COLUMN_INDICES[DayIndex(day)] + 1]

\* a text of no character but whitespace
BlankText(t) == \A i \in 1..Len(t) : Char(t, i) \in Whitespace

\* a row addresses every day column
FullRow(row) == Len(row) >= 21

\* a non-empty cell arrives for the day
Arrives(row, day) ==
    /\ FullRow(row)
    /\ DayCell(row, day) # <<>>
    /\ ~BlankText(DayCell(row, day)[1])

\* the non-empty raw cells of a day in the non-skipped rows among the first n, in row order
RECURSIVE RawCellsFirst(_, _, _)
RawCellsFirst(tbl, day, n) ==
    IF n = 0 THEN <<>>
    ELSE RawCellsFirst(tbl, day, n - 1)
         \o (IF Arrives(tbl[n], day) THEN <<DayCell(tbl[n], day)[1]>> ELSE <<>>)

RawCells(tbl, day) == RawCellsFirst(tbl, day, Len(tbl))

\* the texts of a day's entries, in output order
RECURSIVE EntryTextsFirst(_, _)
EntryTextsFirst(entries, n) ==
    IF n = 0 THEN <<>> ELSE Append(EntryTextsFirst(entries, n - 1), entries[n].text)

EntryTexts(entries) == EntryTextsFirst(entries, Len(entries))

\* the entry a raw cell belongs to: one more than the price-bearing cells before it
GroupOf(raw, j) == 1 + Cardinality({i \in 1..(j - 1) : HasPriceLine(raw[i])})

\* the raw cells of entry e, in order
GroupCells(raw, e) ==
    LET js == {j \in DOMAIN raw : GroupOf(raw, j) = e}
        lo == CHOOSE j \in js : \A i \in js : j <= i
        hi == CHOOSE j \in js : \A i \in js : j >= i
    IN  SubSeq(raw, lo, hi)

\* the title a merged cell's text gives, after the allergen parenthetical is split off
CellTitle(text) ==
    LET lines      == CellLines(text)
        full_title == FullTitle(TitleLines(lines, PriceIdx(lines)))
    IN  DishTitle(full_title, TailMatch(full_title))

\* the allergen codes a merged cell's text gives
CellAllergens(text) ==
    LET lines      == CellLines(text)
        full_title == FullTitle(TitleLines(lines, PriceIdx(lines)))
    IN  DishAllergens(full_title, TailMatch(full_title))

\* a title meets the word filter, an allergen set the allergen filter
WordHit(title) == \E w \in filter_words : Contains(Lower(title), w)
AllergenHit(codes) == codes \cap filter_allergen_numbers # {}

\* the three Monday cells of the merge example
SuppeRows(tbl) ==
    /\ Len(tbl) = 3
    /\ \A n \in 1..3 : FullRow(tbl[n])
    /\ DayCell(tbl[1], "Montag") = <<Str("Suppe")>>
    /\ DayCell(tbl[2], "Montag") = <<PriceLineTight("12,00", "13,00", "14,00")>>
    /\ DayCell(tbl[3], "Montag") = <<Str("Nudeln")>>

-----------------------------------------------------------------------------
(* C1: when a non-empty cell arrives for a day, it is appended after a     *)
(* newline to the day's last entry iff that entry exists and has no price; *)
(* otherwise it starts a new entry with its own text and has_price.  The   *)
(* Monday cells "Suppe", price line, "Nudeln" give exactly two entries.    *)
C1_MergeStep ==
    [][RowTaken =>
        /\ \A day \in DishDays :
            Arrives(TakenRow, day) =>
                LET cell     == DayCell(TakenRow, day)[1]
                    old      == merged_cells[day]
                    new      == merged_cells'[day]
                    n        == Len(old)
                    open     == n > 0 /\ ~old[n].has_price
                    appended == /\ Len(new) = n
                                /\ n > 0
                                /\ new[n].text = old[n].text \o <<NEWLINE>> \o cell
                                /\ \A i \in 1..(n - 1) : new[i] = old[i]
                    started  == new = Append(old, [text |-> cell,
                                                    has_price |-> HasPriceLine(cell)])
                IN  /\ appended <=> open
                    /\ ~open => started
        /\ SuppeRows(table') =>
            merged_cells'["Montag"] =
                <<[text |-> Str("Suppe\n") \o PriceLineTight("12,00", "13,00", "14,00"),
                   has_price |-> TRUE],
                  [text |-> Str("Nudeln"), has_price |-> FALSE]>>
    ]_vars

C1_Witness ==
    /\ SuppeRows(table)
    /\ Len(merged_cells["Montag"]) = 2
    /\ merged_cells["Montag"][1].has_price
    /\ ~merged_cells["Montag"][2].has_price

(* C2: after get_all_dishes no Dish has a title whose lowercased form      *)
(* contains a filter word, nor an allergen set meeting the resolved filter *)
(* codes; every merged cell meeting either condition gives no Dish.        *)
C2_FiltersApplied ==
    pc = "done" =>
        \A day \in AllDays :
            /\ \A k \in DOMAIN dishes_by_day[day] :
                /\ ~WordHit(dishes_by_day[day][k].title)
                /\ ~AllergenHit(dishes_by_day[day][k].allergens)
            /\ day \in DOMAIN merged_cells /\ table # <<>> =>
                \A i \in DOMAIN merged_cells[day] :
                    (\/ WordHit(CellTitle(merged_cells[day][i].text))
                     \/ AllergenHit(CellAllergens(merged_cells[day][i].text)))
                    => i \notin Range(dish_source[day])

C2_Witness ==
    /\ pc = "done"
    /\ \E i \in DOMAIN merged_cells["Dienstag"] :
        /\ merged_cells["Dienstag"][i].has_price
        /\ WordHit(CellTitle(merged_cells["Dienstag"][i].text))
        /\ i \notin Range(dish_source["Dienstag"])
    /\ \E i \in DOMAIN merged_cells["Mittwoch"] :
        /\ merged_cells["Mittwoch"][i].has_price
        /\ AllergenHit(CellAllergens(merged_cells["Mittwoch"][i].text))
        /\ i \notin Range(dish_source["Mittwoch"])
    /\ dishes_by_day["Montag"] # <<>>

(* C3: a merged cell without a price line gives no Dish: an entry whose    *)
(* has_price is false is one entry of the merger's output and the source   *)
(* of no Dish, so every Dish comes from an entry whose has_price is true.  *)
C3_PricelessRejected ==
    pc = "done" /\ table # <<>> =>
        \A day \in DishDays :
            /\ Len(dish_source[day]) = Len(dishes_by_day[day])
            /\ \A k \in DOMAIN dish_source[day] :
                /\ dish_source[day][k] \in DOMAIN merged_cells[day]
                /\ merged_cells[day][dish_source[day][k]].has_price
            /\ \A i \in DOMAIN merged_cells[day] :
                (\A k \in DOMAIN SplitLines(merged_cells[day][i].text) :
                    PriceSearch(SplitLines(merged_cells[day][i].text)[k]) = 0)
                => /\ ~merged_cells[day][i].has_price
                   /\ i \notin Range(dish_source[day])

C3_Witness ==
    /\ pc = "done"
    /\ Len(merged_cells["Montag"]) = 2
    /\ merged_cells["Montag"][1].has_price
    /\ merged_cells["Montag"][2] = [text |-> Str("Nudeln"), has_price |-> FALSE]
    /\ dish_source["Montag"] = <<1>>

(* C4: get_all_dishes always returns: the mapping has exactly the seven    *)
(* weekday keys, Saturday and Sunday are empty, and without a menu page or *)
(* without a table all seven sequences are empty.                          *)
C4_Totality ==
    /\ pc # "raised"
    /\ DOMAIN dishes_by_day =
        {"Montag", "Dienstag", "Mittwoch", "Donnerstag", "Freitag", "Samstag", "Sonntag"}
    /\ dishes_by_day["Samstag"] = <<>>
    /\ dishes_by_day["Sonntag"] = <<>>
    /\ (pc = "done" /\ (n_pages <= 1 \/ table = <<>>)) =>
            \A day \in DOMAIN dishes_by_day : dishes_by_day[day] = <<>>

C4_Witness ==
    /\ pc = "done"
    /\ Len(table) = MaxRows
    /\ \E n \in DOMAIN table : Len(table[n]) = 20
    /\ dishes_by_day["Freitag"] # <<>>
    /\ dishes_by_day["Samstag"] = <<>>

(* C5: a Monday cell "Linsen-" / "suppe" / "3,50 € | 4,00 € | 4,50 €"      *)
(* gives exactly one Monday Dish, titled "Linsensuppe", price 3.50,        *)
(* category main, no allergens; so does the Tuesday cell whose price line  *)
(* carries the marker PRICE_LINE_RE takes.                                 *)
C5_HyphenationCollapse ==
    (/\ pc = "done"
     /\ Len(table) = 1
     /\ FullRow(table[1])
     /\ DayCell(table[1], "Montag") =
            <<Str("Linsen-\nsuppe\n") \o EuroSignLine("3,50", "4,00", "4,50")>>
     /\ DayCell(table[1], "Dienstag") =
            <<Str("Linsen-\nsuppe\n") \o PriceLine("3,50", "4,00", "4,50")>>)
    => \A day \in {"Montag", "Dienstag"} :
        dishes_by_day[day] =
            <<[title |-> Str("Linsensuppe"), price |-> 350, category |-> "main",
               allergens |-> {}]>>

(* C6: every Dish has category side iff its price is at most 1.00, main    *)
(* otherwise, its price being the first amount of the price line: first    *)
(* amount 1,00 gives side and 1,01 gives main.                             *)
C6_CategoryBoundary ==
    pc = "done" =>
        /\ \A day \in AllDays : \A k \in DOMAIN dishes_by_day[day] :
            /\ dishes_by_day[day][k].category \in {"side", "main"}
            /\ dishes_by_day[day][k].category = "side" <=> dishes_by_day[day][k].price <= 100
        /\ \A c \in 0..(MaxPriceCents + 1) :
            \A day \in {"Montag", "Dienstag"} :
                DayCell(table[1], day) = <<PriceCell(c)>> =>
                    dishes_by_day[day] =
                        <<[title |-> Str("Beilage"), price |-> c,
                           category |-> IF c <= 100 THEN "side" ELSE "main",
                           allergens |-> {}]>>

C6_Witness ==
    /\ pc = "done"
    /\ dishes_by_day["Montag"] # <<>>
    /\ dishes_by_day["Montag"][1].price = 100
    /\ dishes_by_day["Montag"][1].category = "side"
    /\ dishes_by_day["Dienstag"] # <<>>
    /\ dishes_by_day["Dienstag"][1].price = 101
    /\ dishes_by_day["Dienstag"][1].category = "main"

-----------------------------------------------------------------------------
(* Legend properties, over the matches consumed so far                     *)

Matches == LegendMatches(last_page_text)

\* a retained entry whose normalized name has more than one word
MultiWord(m) == Retained(m) /\ FirstWord(NameClean(m)) # NameClean(m)

\* the keys an entry writes
KeysOf(m) == IF Retained(m) THEN {NameClean(m), FirstWord(NameClean(m))} ELSE {}

\* the full name and the first word of entry i are in the mapping with one code
SameCode(i) ==
    /\ NameClean(Matches[i]) \in DOMAIN allergen_map
    /\ FirstWord(NameClean(Matches[i])) \in DOMAIN allergen_map
    /\ allergen_map[NameClean(Matches[i])] = allergen_map[FirstWord(NameClean(Matches[i]))]

\* no entry consumed after entry i writes one of entry i's two keys
NotOverwritten(i) ==
    \A j \in (i + 1)..legend_idx : KeysOf(Matches[j]) \cap KeysOf(Matches[i]) = {}

(* C7 as stated: in the returned mapping, for every retained multi-word    *)
(* entry, the normalized full name and its first word map to the same code *)
C7_FirstWordSameCode ==
    pc = "constructed" =>
        \A i \in 1..legend_idx : MultiWord(Matches[i]) => SameCode(i)

(* C7 amended: for every retained multi-word entry no later retained entry *)
(* of which writes its full name or its first word (last write wins), both *)
(* keys map to that entry's code; so they do right after it is recorded.   *)
C7_FirstWordUntilOverwritten ==
    \A i \in 1..legend_idx :
        MultiWord(Matches[i]) /\ NotOverwritten(i) =>
            /\ SameCode(i)
            /\ allergen_map[NameClean(Matches[i])] = Matches[i].number

C7_Witness ==
    /\ pc = "constructed"
    /\ legend_idx >= 2
    /\ \E i \in 1..(legend_idx - 1) :
        /\ MultiWord(Matches[i])
        /\ NotOverwritten(i)
        /\ Retained(Matches[i + 1])
        /\ SameCode(i)

-----------------------------------------------------------------------------
(* C8: once an entry has has_price = true, neither its flag nor its text   *)
(* changes while later rows are taken; on a merge the flag assigned is the *)
(* OR of the old flag and the new cell's.                                  *)
C8_HasPriceSticky ==
    [][RowTaken =>
        \A day \in DishDays :
            /\ \A i \in DOMAIN merged_cells[day] :
                merged_cells[day][i].has_price =>
                    /\ i \in DOMAIN merged_cells'[day]
                    /\ merged_cells'[day][i] = merged_cells[day][i]
            /\ (/\ Arrives(TakenRow, day)
                /\ Len(merged_cells'[day]) = Len(merged_cells[day])) =>
                    LET n == Len(merged_cells[day])
                    IN  merged_cells'[day][n].has_price =
                            (merged_cells[day][n].has_price
                                \/ HasPriceLine(DayCell(TakenRow, day)[1]))
    ]_vars

C8_Witness ==
    \E day \in DishDays :
        /\ Len(merged_cells[day]) >= 2
        /\ merged_cells[day][1].has_price
        /\ Len(RawCells(table, day)) > Len(merged_cells[day])

(* C9: a row that is empty or has fewer than 21 columns changes no day's   *)
(* entries, and a missing, empty or whitespace-only cell changes neither   *)
(* its day's entries nor another day's; a price-less entry is continued by *)
(* the day's next non-empty cell across skipped rows.                      *)
C9_SkippedInputNoChange ==
    [][RowTaken =>
        /\ pc' # "raised"
        /\ ~FullRow(TakenRow) => merged_cells' = merged_cells
        /\ \A day \in DishDays :
            ~Arrives(TakenRow, day) => merged_cells'[day] = merged_cells[day]
        /\ \A day \in DishDays :
            (/\ Arrives(TakenRow, day)
             /\ merged_cells[day] # <<>>
             /\ ~merged_cells[day][Len(merged_cells[day])].has_price) =>
                /\ Len(merged_cells'[day]) = Len(merged_cells[day])
                /\ merged_cells'[day][Len(merged_cells[day])].text =
                        merged_cells[day][Len(merged_cells[day])].text
                            \o <<NEWLINE>> \o DayCell(TakenRow, day)[1]
    ]_vars

C9_Witness ==
    /\ Len(table) = 3
    /\ FullRow(table[1])
    /\ FullRow(table[3])
    /\ DayCell(table[1], "Montag") = <<Str("Suppe")>>
    /\ DayCell(table[1], "Freitag") = <<Str("  \n ")>>
    /\ Len(table[2]) = 20
    /\ DayCell(table[3], "Montag") = <<PriceLineTight("12,00", "13,00", "14,00")>>
    /\ merged_cells["Montag"] =
            <<[text |-> Str("Suppe\n") \o PriceLineTight("12,00", "13,00", "14,00"),
                   has_price |-> TRUE]>>

(* C10: after any prefix of the rows, for each day the newline-joined      *)
(* entry texts equal the newline-joined non-empty raw cells of the         *)
(* non-skipped rows in row order; each entry is a run of consecutive raw   *)
(* cells with at most one price-bearing cell, its last.                    *)
C10_Conservation ==
    \A day \in DishDays :
        LET raw     == RawCells(table, day)
            entries == merged_cells[day]
        IN  /\ Join(EntryTexts(entries), <<NEWLINE>>) = Join(raw, <<NEWLINE>>)
            /\ Len(entries) = IF raw = <<>> THEN 0 ELSE GroupOf(raw, Len(raw))
            /\ \A e \in DOMAIN entries :
                LET cells == GroupCells(raw, e)
                IN  /\ entries[e].text = Join(cells, <<NEWLINE>>)
                    /\ \A j \in 1..(Len(cells) - 1) : ~HasPriceLine(cells[j])

C10_Witness ==
    \E day \in DishDays :
        /\ Len(RawCells(table, day)) = 3
        /\ Len(merged_cells[day]) = 2
        /\ merged_cells[day][1].has_price
        /\ Len(GroupCells(RawCells(table, day), 1)) = 2

====
